---- MODULE Spec2Model ----
(***************************************************************************)
(* Model of src/cdk/index.ts: the ApiLambdaCrudDynamoDBStack constructor,  *)
(* the exported addCorsOptions routine and the three top-level statements  *)
(* that build the app, the stack and emit the graph (app.synth()).         *)
(*                                                                         *)
(* The constructor is straight-line code.  Its statements are listed, in   *)
(* source order and with their source lines, in ConstructorBody; pc counts *)
(* the statements already executed and there is one action per kind of     *)
(* statement.  The state is the descriptor graph built so far.             *)
(***************************************************************************)
EXTENDS Naturals, Sequences, FiniteSets, TLC

VARIABLES
    pc,                   \* number of statements of Program already executed
    order,                \* order in which the compute statements are taken
    stackId,              \* the id argument of the constructor (line 20)
    dirname,              \* __dirname, as the segments of an absolute path
    app,                  \* <<>> or <<the App>>                   (line 152)
    stack,                \* <<>> or <<the Stack>>                 (line 21)
    dynamoTable,          \* <<>> or <<the table descriptor>>      (line 23)
    nodeJsFunctionProps,  \* <<>> or <<the shared props object>>   (line 32)
    lambdas,              \* the NodejsFunction descriptors, in construction order
    grants,               \* the grantReadWriteData relations, in call order
    integrations,         \* the LambdaIntegration objects, in construction order
    api,                  \* <<>> or <<the RestApi>>               (line 81)
    methodOption,         \* <<>> or <<the MethodOptions object>>  (line 84)
    resources,            \* the route nodes made by addResource
    methods,              \* the method entries made by addMethod, in call order
    synthesized,          \* app.synth() has run                   (line 154)
    failed,               \* a statement threw; nothing runs after it
    reattached            \* addCorsOptions calls made on nodes that had OPTIONS

vars == <<pc, order, stackId, dirname, app, stack, dynamoTable,
          nodeJsFunctionProps, lambdas, grants, integrations, api,
          methodOption, resources, methods, synthesized, failed, reattached>>

----------------------------------------------------------------------------
(* Bounds of the model *)

\* longest __dirname, in path segments
MaxDirDepth == 2
\* most calls of addCorsOptions on a node that already has an OPTIONS entry
MaxReattach == 2

DirSegments == {"app", "cdk"}
Dirnames == UNION {[1..n -> DirSegments] : n \in 0..MaxDirDepth}
StackIds == {"ApiLambdaCrudDynamoDBExample", "OtherStack"}

----------------------------------------------------------------------------
(* Values *)

\* an option or property the source does not pass
Undefined == "undefined"

\* path.join: the segments are taken left to right, ".." drops the segment
\* before it, and at the root of an absolute path ".." stays at the root
RECURSIVE Normalize(_, _)
Normalize(parts, acc) ==
    IF parts = <<>> THEN acc
    ELSE IF Head(parts) = ".."
         THEN Normalize(Tail(parts),
                        IF acc = <<>> THEN acc ELSE SubSeq(acc, 1, Len(acc) - 1))
         ELSE Normalize(Tail(parts), Append(acc, Head(parts)))

join(parts) == Normalize(parts, <<>>)

\* new Table(this, "items", {...})
Table(id) ==
    [id            |-> id,
     partitionKey  |-> [name |-> "id", type |-> "STRING"],
     tableName     |-> "items",
     removalPolicy |-> "DESTROY"]

\* a faulty variant of the props literal: the key name handed to the
\* functions is not the table's partition key
NodejsFunctionPropsWrongKey(table) ==
    [bundling    |-> [externalModules |-> <<"aws-sdk">>],
     environment |-> [PRIMARY_KEY |-> "itemId", TABLE_NAME |-> table.tableName],
     runtime     |-> "NODEJS_20_X"]

\* const nodeJsFunctionProps: NodejsFunctionProps = {...}
NodejsFunctionProps(table) ==
    [bundling    |-> [externalModules |-> <<"aws-sdk">>],
     environment |-> [PRIMARY_KEY |-> "id", TABLE_NAME |-> table.tableName],
     runtime     |-> "NODEJS_20_X"]

\* a faulty variant of the spread: Object.assign(nodeJsFunctionProps, {entry})
\* writes the entry into the shared object and returns that object
ObjectAssign(entry, shared) ==
    LET merged == [entry       |-> entry,
                   bundling    |-> shared.bundling,
                   environment |-> shared.environment,
                   runtime     |-> shared.runtime]
    IN  [result |-> merged, source |-> merged]

\* { entry: ..., ...nodeJsFunctionProps }: a new object with the entry and
\* the shared object's own properties; the shared object is only read
ObjectSpread(entry, shared) ==
    [result |-> [entry       |-> entry,
                 bundling    |-> shared.bundling,
                 environment |-> shared.environment,
                 runtime     |-> shared.runtime],
     source |-> shared]

\* new NodejsFunction(this, id, props), held by the constant named var
NodejsFunction(var, id, props) ==
    [var         |-> var,
     id          |-> id,
     entry       |-> props.entry,
     bundling    |-> props.bundling,
     environment |-> props.environment,
     runtime     |-> props.runtime]

\* new LambdaIntegration(handler), held by the constant named var
LambdaIntegration(var, handler) ==
    [var |-> var, type |-> "LAMBDA", handler |-> handler]

\* a faulty variant of the method options: the routes ask for IAM
MethodOptionsIam == [authorizationType |-> "AWS_IAM"]

\* const methodOption: MethodOptions = { authorizationType: NONE }
MethodOptions == [authorizationType |-> "NONE"]

AllowHeaders     == "method.response.header.Access-Control-Allow-Headers"
AllowOrigin      == "method.response.header.Access-Control-Allow-Origin"
AllowCredentials == "method.response.header.Access-Control-Allow-Credentials"
AllowMethods     == "method.response.header.Access-Control-Allow-Methods"

\* the four header names of the preflight response
CorsHeaders == {AllowHeaders, AllowOrigin, AllowCredentials, AllowMethods}

\* the method responses addCorsOptions declares
CorsMethodResponses ==
    <<[statusCode |-> "200",
       responseParameters |->
           (AllowHeaders :> TRUE) @@ (AllowMethods :> TRUE)
           @@ (AllowCredentials :> TRUE) @@ (AllowOrigin :> TRUE)]>>

\* the MockIntegration addCorsOptions builds
CorsMockIntegration ==
    [type |-> "MOCK",
     integrationResponses |->
         <<[statusCode |-> "200",
            responseParameters |->
                (AllowHeaders :>
                   "'Content-Type,X-Amz-Date,Authorization,X-Api-Key,X-Amz-Security-Token,X-Amz-User-Agent'")
                @@ (AllowOrigin :> "'*'")
                @@ (AllowCredentials :> "'false'")
                @@ (AllowMethods :> "'OPTIONS,GET,PUT,POST,DELETE'")]>>,
     passthroughBehavior |-> "NEVER",
     requestTemplates |-> ("application/json" :> "{\"statusCode\": 200}")]

\* the verbs entered on a route node so far
VerbsOn(apiResource) ==
    {methods[i].httpMethod :
        i \in {j \in 1..Len(methods) : methods[j].resource = apiResource}}

\* a faulty variant of addCorsOptions: the method responses leave out the
\* Allow-Credentials header the integration response sets
addCorsOptionsMissingHeader(apiResource) ==
    [resource    |-> apiResource,
     httpMethod  |-> "OPTIONS",
     integration |-> CorsMockIntegration,
     options     |->
         [methodResponses |->
             <<[statusCode |-> "200",
                responseParameters |->
                    (AllowHeaders :> TRUE) @@ (AllowMethods :> TRUE)
                    @@ (AllowOrigin :> TRUE)]>>]]

\* a faulty variant of addCorsOptions: Allow-Methods is worked out from the
\* verbs the node has when the routine is called, instead of being fixed
addCorsOptionsDerivedMethods(apiResource) ==
    [resource    |-> apiResource,
     httpMethod  |-> "OPTIONS",
     integration |->
         [type |-> "MOCK",
          integrationResponses |->
              <<[statusCode |-> "200",
                 responseParameters |->
                     (AllowHeaders :> {"Content-Type"})
                     @@ (AllowOrigin :> {"*"})
                     @@ (AllowCredentials :> {"false"})
                     @@ (AllowMethods :> VerbsOn(apiResource))]>>,
          passthroughBehavior |-> "NEVER",
          requestTemplates |-> ("application/json" :> "{\"statusCode\": 200}")],
     options     |-> [methodResponses |-> CorsMethodResponses]]

\* addCorsOptions(apiResource): the OPTIONS entry it hands to addMethod
addCorsOptions(apiResource) ==
    [resource    |-> apiResource,
     httpMethod  |-> "OPTIONS",
     integration |-> CorsMockIntegration,
     options     |-> [methodResponses |-> CorsMethodResponses]]

\* apiResource.addMethod(...): the entry is entered on the node.  The source
\* never adds a verb twice to a node; what the library does with a second
\* entry for the same verb is outside the source, so both outcomes are kept:
\* the call throws and the node is as before, or the entry is entered.
addMethod(entry) ==
    IF \E i \in 1..Len(methods) :
          /\ methods[i].resource = entry.resource
          /\ methods[i].httpMethod = entry.httpMethod
    THEN {[methods |-> methods, failed |-> TRUE],
          [methods |-> Append(methods, entry), failed |-> FALSE]}
    ELSE {[methods |-> Append(methods, entry), failed |-> FALSE]}

----------------------------------------------------------------------------
(* The statements of the program, in source order *)

FunctionStmt(var, id, file, line) ==
    [op |-> "NodejsFunction", var |-> var, id |-> id, file |-> file, line |-> line]
GrantStmt(grantee, line) ==
    [op |-> "grantReadWriteData", grantee |-> grantee, line |-> line]
IntegrationStmt(var, handler, line) ==
    [op |-> "LambdaIntegration", var |-> var, handler |-> handler, line |-> line]
ResourceStmt(var, parent, pathPart, line) ==
    [op |-> "addResource", var |-> var, parent |-> parent,
     pathPart |-> pathPart, line |-> line]
MethodStmt(resource, httpMethod, integration, line) ==
    [op |-> "addMethod", resource |-> resource, httpMethod |-> httpMethod,
     integration |-> integration, line |-> line]
CorsStmt(resource, line) ==
    [op |-> "addCorsOptions", resource |-> resource, line |-> line]

\* lines 45-64: the five compute descriptors
ComputeStatements ==
    << FunctionStmt("getOneLambda",    "getOneItemFunction",  "get-one.ts",    45),
       FunctionStmt("getAllLambda",    "getAllItemsFunction", "get-all.ts",    49),
       FunctionStmt("createOneLambda", "createItemFunction",  "create.ts",     53),
       FunctionStmt("updateOneLambda", "updateItemFunction",  "update-one.ts", 57),
       FunctionStmt("deleteOneLambda", "deleteItemFunction",  "delete-one.ts", 61) >>

\* a faulty variant of the grants: the first line was copied and the grantee
\* of the second was not changed
GrantStatementsCopied ==
    << GrantStmt("getAllLambda",    67),
       GrantStmt("getAllLambda",    68),
       GrantStmt("createOneLambda", 69),
       GrantStmt("updateOneLambda", 70),
       GrantStmt("deleteOneLambda", 71) >>

\* lines 67-71: the permission grants
GrantStatements ==
    << GrantStmt("getAllLambda",    67),
       GrantStmt("getOneLambda",    68),
       GrantStmt("createOneLambda", 69),
       GrantStmt("updateOneLambda", 70),
       GrantStmt("deleteOneLambda", 71) >>

\* a faulty variant of the integrations: getOneIntegration wraps the
\* read-all function
IntegrationStatementsCopied ==
    << IntegrationStmt("getAllIntegration",    "getAllLambda",    74),
       IntegrationStmt("createOneIntegration", "createOneLambda", 75),
       IntegrationStmt("getOneIntegration",    "getAllLambda",    76),
       IntegrationStmt("updateOneIntegration", "updateOneLambda", 77),
       IntegrationStmt("deleteOneIntegration", "deleteOneLambda", 78) >>

\* lines 74-78: the Lambda integrations
IntegrationStatements ==
    << IntegrationStmt("getAllIntegration",    "getAllLambda",    74),
       IntegrationStmt("createOneIntegration", "createOneLambda", 75),
       IntegrationStmt("getOneIntegration",    "getOneLambda",    76),
       IntegrationStmt("updateOneIntegration", "updateOneLambda", 77),
       IntegrationStmt("deleteOneIntegration", "deleteOneLambda", 78) >>

\* a faulty variant of the /items routes: the preflight entry is attached
\* before the POST route is built
ItemsRouteStatementsCorsEarly ==
    << ResourceStmt("items", "api.root", "items", 88),
       MethodStmt("items", "GET",  "getAllIntegration",    90),
       CorsStmt("items", 96),
       MethodStmt("items", "POST", "createOneIntegration", 93) >>

\* lines 88-96: the /items node, its two routes and its preflight entry
ItemsRouteStatements ==
    << ResourceStmt("items", "api.root", "items", 88),
       MethodStmt("items", "GET",  "getAllIntegration",    90),
       MethodStmt("items", "POST", "createOneIntegration", 93),
       CorsStmt("items", 96) >>

\* a faulty variant of the /items/{id} routes: the DELETE route is missing
SingleItemRouteStatementsNoDelete ==
    << ResourceStmt("singleItem", "items", "{id}", 98),
       MethodStmt("singleItem", "GET", "getOneIntegration",    99),
       MethodStmt("singleItem", "PUT", "updateOneIntegration", 102),
       CorsStmt("singleItem", 108) >>

\* a faulty variant of the /items/{id} routes: PUT and DELETE are bound to
\* each other's integration
SingleItemRouteStatementsSwapped ==
    << ResourceStmt("singleItem", "items", "{id}", 98),
       MethodStmt("singleItem", "GET",    "getOneIntegration",    99),
       MethodStmt("singleItem", "PUT",    "deleteOneIntegration", 102),
       MethodStmt("singleItem", "DELETE", "updateOneIntegration", 105),
       CorsStmt("singleItem", 108) >>

\* lines 98-108: the /items/{id} node, its three routes and its preflight entry
SingleItemRouteStatements ==
    << ResourceStmt("singleItem", "items", "{id}", 98),
       MethodStmt("singleItem", "GET",    "getOneIntegration",    99),
       MethodStmt("singleItem", "PUT",    "updateOneIntegration", 102),
       MethodStmt("singleItem", "DELETE", "deleteOneIntegration", 105),
       CorsStmt("singleItem", 108) >>

\* lines 20-109: the constructor
ConstructorBody ==
    << [op |-> "super", line |-> 21],
       [op |-> "Table", id |-> "items", line |-> 23],
       [op |-> "NodejsFunctionProps", line |-> 32] >>
    \o ComputeStatements
    \o GrantStatements
    \o IntegrationStatements
    \o << [op |-> "RestApi", id |-> "itemsApi", line |-> 81],
          [op |-> "MethodOptions", line |-> 84] >>
    \o ItemsRouteStatements
    \o SingleItemRouteStatements

\* lines 152-154: new App(), new ApiLambdaCrudDynamoDBStack(app, id), app.synth()
Program ==
    << [op |-> "App", line |-> 152] >>
    \o ConstructorBody
    \o << [op |-> "synth", line |-> 154] >>

\* the places of the compute statements in Program
ComputePositions ==
    SelectSeq([i \in 1..Len(Program) |-> i],
              LAMBDA i : Program[i].op = "NodejsFunction")

ComputeSlots == 1..Len(ComputePositions)

\* the orders in which the compute statements can be taken
ComputeOrders ==
    {p \in [ComputeSlots -> ComputeSlots] :
        \A i, j \in ComputeSlots : i # j => p[i] # p[j]}

\* the order of the source
SourceOrder == [i \in ComputeSlots |-> i]

\* the statement executed at place i: the compute statements are taken in
\* the order `order', every other statement is the one at its place
StatementAt(i) ==
    IF Program[i].op = "NodejsFunction"
    THEN LET k == CHOOSE n \in ComputeSlots : ComputePositions[n] = i
         IN  Program[ComputePositions[order[k]]]
    ELSE Program[i]

\* the statement to execute next
Stmt == StatementAt(pc + 1)

Running(op) ==
    /\ ~failed
    /\ pc < Len(Program)
    /\ Stmt.op = op

----------------------------------------------------------------------------
(* Initial states *)

Blank ==
    /\ pc = 0
    /\ stackId \in StackIds
    /\ dirname \in Dirnames
    /\ app = <<>>
    /\ stack = <<>>
    /\ dynamoTable = <<>>
    /\ nodeJsFunctionProps = <<>>
    /\ lambdas = <<>>
    /\ grants = <<>>
    /\ integrations = <<>>
    /\ api = <<>>
    /\ methodOption = <<>>
    /\ resources = <<>>
    /\ methods = <<>>
    /\ synthesized = FALSE
    /\ failed = FALSE
    /\ reattached = 0

\* the program as written
Init == Blank /\ order = SourceOrder

\* the program with its compute statements in any order
InitAnyOrder == Blank /\ order \in ComputeOrders

----------------------------------------------------------------------------
(* Actions: one per kind of statement *)

\* line 152: const app = new App()
NewApp ==
    /\ Running("App")
    /\ app' = <<[children |-> "none"]>>
    /\ pc' = pc + 1
    /\ UNCHANGED <<order, stackId, dirname, stack, dynamoTable,
                   nodeJsFunctionProps, lambdas, grants, integrations, api,
                   methodOption, resources, methods, synthesized, failed,
                   reattached>>

\* lines 153, 20-21: new ApiLambdaCrudDynamoDBStack(app, id); super(app, id)
Super ==
    /\ Running("super")
    /\ stack' = <<[id |-> stackId]>>
    /\ pc' = pc + 1
    /\ UNCHANGED <<order, stackId, dirname, app, dynamoTable,
                   nodeJsFunctionProps, lambdas, grants, integrations, api,
                   methodOption, resources, methods, synthesized, failed,
                   reattached>>

\* lines 23-30: const dynamoTable = new Table(this, "items", {...})
NewTable ==
    /\ Running("Table")
    /\ dynamoTable' = <<Table(Stmt.id)>>
    /\ pc' = pc + 1
    /\ UNCHANGED <<order, stackId, dirname, app, stack, nodeJsFunctionProps,
                   lambdas, grants, integrations, api, methodOption,
                   resources, methods, synthesized, failed, reattached>>

\* lines 32-43: const nodeJsFunctionProps = {...}
DeclareFunctionProps ==
    /\ Running("NodejsFunctionProps")
    /\ nodeJsFunctionProps' = <<NodejsFunctionProps(dynamoTable[1])>>
    /\ pc' = pc + 1
    /\ UNCHANGED <<order, stackId, dirname, app, stack, dynamoTable, lambdas,
                   grants, integrations, api, methodOption, resources,
                   methods, synthesized, failed, reattached>>

\* lines 45-64: const xLambda = new NodejsFunction(this, id,
\*                  { entry: join(__dirname, "..", "lambdas", file), ...props })
NewNodejsFunction ==
    /\ Running("NodejsFunction")
    /\ LET entry  == join(dirname \o <<"..", "lambdas", Stmt.file>>)
           spread == ObjectSpread(entry, nodeJsFunctionProps[1])
       IN  /\ lambdas' =
                 Append(lambdas, NodejsFunction(Stmt.var, Stmt.id, spread.result))
           /\ nodeJsFunctionProps' = <<spread.source>>
    /\ pc' = pc + 1
    /\ UNCHANGED <<order, stackId, dirname, app, stack, dynamoTable, grants,
                   integrations, api, methodOption, resources, methods,
                   synthesized, failed, reattached>>

\* lines 67-71: dynamoTable.grantReadWriteData(xLambda)
GrantReadWriteData ==
    /\ Running("grantReadWriteData")
    /\ grants' = Append(grants, [grantee |-> Stmt.grantee,
                                 table   |-> dynamoTable[1].id,
                                 access  |-> "ReadWriteData"])
    /\ pc' = pc + 1
    /\ UNCHANGED <<order, stackId, dirname, app, stack, dynamoTable,
                   nodeJsFunctionProps, lambdas, integrations, api,
                   methodOption, resources, methods, synthesized, failed,
                   reattached>>

\* lines 74-78: const xIntegration = new LambdaIntegration(xLambda)
NewLambdaIntegration ==
    /\ Running("LambdaIntegration")
    /\ integrations' =
           Append(integrations, LambdaIntegration(Stmt.var, Stmt.handler))
    /\ pc' = pc + 1
    /\ UNCHANGED <<order, stackId, dirname, app, stack, dynamoTable,
                   nodeJsFunctionProps, lambdas, grants, api, methodOption,
                   resources, methods, synthesized, failed, reattached>>

\* lines 81-83: const api = new RestApi(this, "itemsApi", {...}); api.root
\* is the node every route hangs from
NewRestApi ==
    /\ Running("RestApi")
    /\ api' = <<[id |-> Stmt.id, restApiName |-> "Items Service"]>>
    /\ resources' = Append(resources, [var |-> "api.root", path |-> <<>>])
    /\ pc' = pc + 1
    /\ UNCHANGED <<order, stackId, dirname, app, stack, dynamoTable,
                   nodeJsFunctionProps, lambdas, grants, integrations,
                   methodOption, methods, synthesized, failed, reattached>>

\* lines 84-86: const methodOption = { authorizationType: NONE }
DeclareMethodOption ==
    /\ Running("MethodOptions")
    /\ methodOption' = <<MethodOptions>>
    /\ pc' = pc + 1
    /\ UNCHANGED <<order, stackId, dirname, app, stack, dynamoTable,
                   nodeJsFunctionProps, lambdas, grants, integrations, api,
                   resources, methods, synthesized, failed, reattached>>

\* the route node held by the constant named var
ResourceNamed(var) ==
    resources[CHOOSE i \in 1..Len(resources) : resources[i].var = var]

\* the integration held by the constant named var
IntegrationNamed(var) ==
    integrations[CHOOSE i \in 1..Len(integrations) : integrations[i].var = var]

\* lines 88, 98: const x = parent.addResource(pathPart)
AddResource ==
    /\ Running("addResource")
    /\ resources' =
           Append(resources,
                  [var  |-> Stmt.var,
                   path |-> Append(ResourceNamed(Stmt.parent).path, Stmt.pathPart)])
    /\ pc' = pc + 1
    /\ UNCHANGED <<order, stackId, dirname, app, stack, dynamoTable,
                   nodeJsFunctionProps, lambdas, grants, integrations, api,
                   methodOption, methods, synthesized, failed, reattached>>

\* lines 90-95, 99-107: x.addMethod(verb, xIntegration, { ...methodOption })
AddMethod ==
    /\ Running("addMethod")
    /\ \E outcome \in addMethod([resource    |-> Stmt.resource,
                                 httpMethod  |-> Stmt.httpMethod,
                                 integration |-> IntegrationNamed(Stmt.integration),
                                 options     |-> methodOption[1]]) :
          /\ methods' = outcome.methods
          /\ failed' = outcome.failed
    /\ pc' = pc + 1
    /\ UNCHANGED <<order, stackId, dirname, app, stack, dynamoTable,
                   nodeJsFunctionProps, lambdas, grants, integrations, api,
                   methodOption, resources, synthesized, reattached>>

\* lines 96, 108: addCorsOptions(x)
AddCorsOptions ==
    /\ Running("addCorsOptions")
    /\ \E outcome \in addMethod(addCorsOptions(Stmt.resource)) :
          /\ methods' = outcome.methods
          /\ failed' = outcome.failed
    /\ pc' = pc + 1
    /\ UNCHANGED <<order, stackId, dirname, app, stack, dynamoTable,
                   nodeJsFunctionProps, lambdas, grants, integrations, api,
                   methodOption, resources, synthesized, reattached>>

\* line 154: app.synth()
Synth ==
    /\ Running("synth")
    /\ synthesized' = TRUE
    /\ pc' = pc + 1
    /\ UNCHANGED <<order, stackId, dirname, app, stack, dynamoTable,
                   nodeJsFunctionProps, lambdas, grants, integrations, api,
                   methodOption, resources, methods, failed, reattached>>

\* the constructor has returned and the graph is not yet emitted
Constructed == pc = Len(Program) - 1

\* the exported addCorsOptions called again, by a user of the module, on a
\* route node of the finished stack that already has its OPTIONS entry
ReattachCors ==
    /\ ~failed
    /\ Constructed
    /\ reattached < MaxReattach
    /\ \E i \in 1..Len(resources) :
          /\ "OPTIONS" \in VerbsOn(resources[i].var)
          /\ \E outcome \in addMethod(addCorsOptions(resources[i].var)) :
                /\ methods' = outcome.methods
                /\ failed' = outcome.failed
    /\ reattached' = reattached + 1
    /\ UNCHANGED <<pc, order, stackId, dirname, app, stack, dynamoTable,
                   nodeJsFunctionProps, lambdas, grants, integrations, api,
                   methodOption, resources, synthesized>>

Next ==
    \/ NewApp
    \/ Super
    \/ NewTable
    \/ DeclareFunctionProps
    \/ NewNodejsFunction
    \/ GrantReadWriteData
    \/ NewLambdaIntegration
    \/ NewRestApi
    \/ DeclareMethodOption
    \/ AddResource
    \/ AddMethod
    \/ AddCorsOptions
    \/ Synth

NextReattach == Next \/ ReattachCors

\* the program as written
Spec == Init /\ [][Next]_vars

\* the program with its compute statements in any order
SpecAnyOrder == InitAnyOrder /\ [][Next]_vars

\* the program as written, followed by further calls of addCorsOptions
SpecReattach == Init /\ [][NextReattach]_vars

----------------------------------------------------------------------------
(* Reading the graph *)

\* the constructor has returned (the graph may or may not be emitted yet)
ConstructorDone == ~failed /\ pc >= Len(Program) - 1

Range(seq) == {seq[i] : i \in 1..Len(seq)}

\* the constants that hold a constructed compute descriptor
LambdaVars == {l.var : l \in Range(lambdas)}

\* the compute descriptor held by the constant named var
LambdaNamed(var) == CHOOSE l \in Range(lambdas) : l.var = var

\* the places in `methods' of the entries of one route node
EntriesOn(apiResource) ==
    {i \in 1..Len(methods) : methods[i].resource = apiResource}

VerbBound(m) == m.httpMethod # "OPTIONS"

VerbEntries == {i \in 1..Len(methods) : VerbBound(methods[i])}
OptionsEntries == {i \in 1..Len(methods) : ~VerbBound(methods[i])}

\* the route nodes that carry at least one method entry
NodesWithMethods == {r \in Range(resources) : EntriesOn(r.var) # {}}

\* the compute descriptor a method entry is bound to, if any: a
\* LambdaIntegration names its handler, a MockIntegration has none
Handler(m) ==
    IF "handler" \in DOMAIN m.integration THEN m.integration.handler ELSE Undefined

\* the authorization type of a method entry: the option when the entry
\* passes one; addCorsOptions passes none and the RestApi of line 81 sets no
\* default method options, which leaves the library's default, NONE
AuthorizationTypeOf(m) ==
    IF "authorizationType" \in DOMAIN m.options
    THEN m.options.authorizationType
    ELSE "NONE"

----------------------------------------------------------------------------
(* C1 *)

\* C1, as stated: once the constructor has returned, two route nodes carry
\* methods, with six verb-bound entries and two OPTIONS entries, eight in all.
C1_AsStated ==
    ConstructorDone =>
        /\ Cardinality(NodesWithMethods) = 2
        /\ Cardinality(VerbEntries) = 6
        /\ Cardinality(OptionsEntries) = 2
        /\ Len(methods) = 8

\* C1, amended: once the constructor has returned, exactly two route nodes
\* carry methods, /items and /items/{id}, with five verb-bound entries and
\* two OPTIONS entries, seven method entries in all.
C1_RouteTreeCounts ==
    ConstructorDone =>
        /\ {r.path : r \in NodesWithMethods} = {<<"items">>, <<"items", "{id}">>}
        /\ Cardinality(NodesWithMethods) = 2
        /\ Cardinality(VerbEntries) = 5
        /\ Cardinality(OptionsEntries) = 2
        /\ Len(methods) = 7

C1_Witness ==
    /\ ConstructorDone
    /\ ~synthesized
    /\ "DELETE" \in VerbsOn("singleItem")
    /\ "OPTIONS" \in VerbsOn("singleItem")

----------------------------------------------------------------------------
(* C2 *)

----------------------------------------------------------------------------
(* C3 *)

\* the path, the verb and the entry file of the function of a verb-bound entry
Binding(m) ==
    LET entry == LambdaNamed(Handler(m)).entry
    IN  <<ResourceNamed(m.resource).path, m.httpMethod, entry[Len(entry)]>>

\* C3: once the constructor has returned, the verb-bound entries are exactly
\* GET /items -> read-all, POST /items -> create, GET /items/{id} -> read-one,
\* PUT /items/{id} -> update-one, DELETE /items/{id} -> delete-one, each once.
C3_RoutesBoundToOwnOperation ==
    ConstructorDone =>
        /\ \A i \in VerbEntries : Handler(methods[i]) \in LambdaVars
        /\ {Binding(methods[i]) : i \in VerbEntries} =
              { <<<<"items">>,         "GET",    "get-all.ts">>,
                <<<<"items">>,         "POST",   "create.ts">>,
                <<<<"items", "{id}">>, "GET",    "get-one.ts">>,
                <<<<"items", "{id}">>, "PUT",    "update-one.ts">>,
                <<<<"items", "{id}">>, "DELETE", "delete-one.ts">> }
        /\ Cardinality(VerbEntries) = 5

C3_Witness ==
    /\ ConstructorDone
    /\ \E i \in VerbEntries :
          /\ methods[i].httpMethod = "PUT"
          /\ Handler(methods[i]) = "updateOneLambda"

----------------------------------------------------------------------------
(* C4 *)

\* C4: every compute descriptor has a PRIMARY_KEY and a TABLE_NAME
\* environment entry, equal to the table's partition-key name and to the
\* table's name; once the constructor has returned there are five of them.
C4_EnvironmentFromTable ==
    /\ \A l \in Range(lambdas) :
          /\ {"PRIMARY_KEY", "TABLE_NAME"} \subseteq DOMAIN l.environment
          /\ l.environment.PRIMARY_KEY = dynamoTable[1].partitionKey.name
          /\ l.environment.TABLE_NAME = dynamoTable[1].tableName
    /\ ConstructorDone => Len(lambdas) = 5

C4_Witness ==
    /\ synthesized
    /\ Len(lambdas) = 5
    /\ \A l \in Range(lambdas) : l.environment.TABLE_NAME = "items"

----------------------------------------------------------------------------
(* C5 *)

\* the entry answers a preflight request by itself, with status 200 and the
\* four fixed headers, declared alike in both responses
IsPreflight(m) ==
    /\ m.integration.type = "MOCK"
    /\ Handler(m) = Undefined
    /\ Len(m.integration.integrationResponses) = 1
    /\ Len(m.options.methodResponses) = 1
    /\ LET ir == m.integration.integrationResponses[1]
           mr == m.options.methodResponses[1]
       IN  /\ ir.statusCode = "200"
           /\ mr.statusCode = "200"
           /\ DOMAIN ir.responseParameters = CorsHeaders
           /\ DOMAIN mr.responseParameters = DOMAIN ir.responseParameters
           /\ \A h \in CorsHeaders : mr.responseParameters[h] = TRUE
           /\ ir.responseParameters[AllowOrigin] = "'*'"
           /\ ir.responseParameters[AllowCredentials] = "'false'"

\* C5: once the constructor has returned, every route node with a verb-bound
\* entry has an OPTIONS entry, and every OPTIONS entry is a mock-backed
\* preflight answer: no compute descriptor, status 200, exactly the four
\* headers, the same header set in the integration and the method response.
C5_PreflightOnEveryNode ==
    ConstructorDone =>
        /\ \A i \in VerbEntries : "OPTIONS" \in VerbsOn(methods[i].resource)
        /\ \A i \in OptionsEntries : IsPreflight(methods[i])

C5_Witness ==
    /\ ConstructorDone
    /\ "GET" \in VerbsOn("items")
    /\ "OPTIONS" \in VerbsOn("items")
    /\ "PUT" \in VerbsOn("singleItem")
    /\ "OPTIONS" \in VerbsOn("singleItem")

----------------------------------------------------------------------------
(* C6 *)

\* C6: every method entry, verb-bound or OPTIONS, has authorization type NONE
\* and names no authorizer.
C6_EveryRouteOpen ==
    \A m \in Range(methods) :
        /\ AuthorizationTypeOf(m) = "NONE"
        /\ "authorizer" \notin DOMAIN m.options

C6_Witness ==
    /\ synthesized
    /\ VerbEntries # {}
    /\ OptionsEntries # {}

----------------------------------------------------------------------------
(* C7 *)

\* the response contract of an OPTIONS entry: the status and header values
\* it returns and the status and headers it declares
Contract(m) ==
    [returned |-> m.integration.integrationResponses,
     declared |-> m.options.methodResponses]

\* the response contracts of the OPTIONS entries of a route node
PreflightContracts(apiResource) ==
    {Contract(methods[i]) :
        i \in {j \in EntriesOn(apiResource) : ~VerbBound(methods[j])}}

\* C7: a call of addCorsOptions on a route node that already has an OPTIONS
\* entry leaves the node's preflight response contract as it was, whether
\* the second entry is refused or entered.
C7_ReattachKeepsContract ==
    [][\A r \in Range(resources) :
          "OPTIONS" \in VerbsOn(r.var) =>
              PreflightContracts(r.var)' = PreflightContracts(r.var)]_vars

C7_Witness ==
    /\ reattached > 0
    /\ ~failed
    /\ \E r \in Range(resources) :
          Cardinality({i \in EntriesOn(r.var) : ~VerbBound(methods[i])}) >= 2

----------------------------------------------------------------------------
(* C8 *)

\* the verb-bound entries of a route node, in call order
VerbEntriesOn(apiResource) ==
    SelectSeq(methods, LAMBDA m : m.resource = apiResource /\ VerbBound(m))

\* the graph handed to the provisioning engine
Graph ==
    <<stack, dynamoTable, nodeJsFunctionProps, lambdas, grants, integrations,
      api, methodOption, resources, methods>>

\* the storage descriptor before any compute descriptor, all compute
\* descriptors before any grant, all grants before any route
EarlyPhases ==
    /\ lambdas' # <<>> => dynamoTable' = dynamoTable /\ Len(dynamoTable) = 1
    /\ grants' # <<>> =>
          lambdas' = lambdas /\ Len(lambdas) = Len(ComputePositions)
    /\ (resources' # <<>> \/ methods' # <<>>) =>
          grants' = grants /\ Len(grants) = Len(GrantStatements)

\* C8, as stated: the phases are separate and in order, and every verb-bound
\* route, on either node, is built before any OPTIONS entry is attached; the
\* graph is emitted after all of it.
C8_AsStated ==
    [][/\ EarlyPhases
       /\ OptionsEntries # {} =>
             VerbEntriesOn("items")' = VerbEntriesOn("items")
             /\ VerbEntriesOn("singleItem")' = VerbEntriesOn("singleItem")
       /\ synthesized => Graph' = Graph]_vars

\* C8, amended: the storage descriptor is built before any compute
\* descriptor, all five compute descriptors before any grant, all grants
\* before any route; on each route node all its verb-bound routes are built
\* before that node's OPTIONS entry is attached (the OPTIONS entry of /items
\* is attached before the routes of /items/{id} are built); the graph is
\* emitted after all of it.
C8_PhaseOrder ==
    [][/\ EarlyPhases
       /\ \A r \in Range(resources) :
             "OPTIONS" \in VerbsOn(r.var) =>
                 VerbEntriesOn(r.var)' = VerbEntriesOn(r.var)
       /\ synthesized' => Graph' = Graph /\ ConstructorDone]_vars

C8_Witness ==
    /\ synthesized
    /\ Len(dynamoTable) = 1
    /\ Len(lambdas) = 5
    /\ Len(grants) = 5
    /\ Len(VerbEntriesOn("items")) = 2
    /\ Len(VerbEntriesOn("singleItem")) = 3
    /\ Cardinality(OptionsEntries) = 2

----------------------------------------------------------------------------
(* C9 *)

\* the descriptors that constructing stmts one after the other yields,
\* starting from the shared props object `shared'
RECURSIVE BuildInOrder(_, _, _)
BuildInOrder(stmts, shared, acc) ==
    IF stmts = <<>> THEN acc
    ELSE LET s      == Head(stmts)
             spread == ObjectSpread(join(dirname \o <<"..", "lambdas", s.file>>),
                                    shared)
         IN  BuildInOrder(Tail(stmts), spread.source,
                          acc \cup {NodejsFunction(s.var, s.id, spread.result)})

\* the descriptors the source's order yields
SourceOrderGraph ==
    BuildInOrder(ComputeStatements, NodejsFunctionProps(dynamoTable[1]), {})

\* C9: in whatever order the five compute descriptors are constructed,
\* constructing one leaves the shared props object and the descriptors
\* built before it as they were, and the five descriptors that result
\* (entry, runtime, bundling, environment) are those of the source's order.
C9_ConstructionCommutes ==
    [][Len(lambdas') = Len(lambdas) + 1 =>
          /\ nodeJsFunctionProps' = nodeJsFunctionProps
          /\ SubSeq(lambdas', 1, Len(lambdas)) = lambdas
          /\ Len(lambdas') = Len(ComputePositions) =>
                Range(lambdas') = SourceOrderGraph]_vars

C9_Witness ==
    /\ order # SourceOrder
    /\ order[1] # 1
    /\ Len(lambdas) = 5
    /\ Range(lambdas) = SourceOrderGraph

----------------------------------------------------------------------------
(* C10 *)

\* C10: in every state, a grant refers to a constructed compute descriptor
\* and to the constructed table, an integration to a constructed compute
\* descriptor, and a verb-bound entry to a built route node, a built
\* integration and a constructed compute descriptor; once the constructor
\* has returned, each of the five compute descriptors is the target of
\* exactly one verb-bound entry.
C10_ReferentialIntegrity ==
    /\ \A g \in Range(grants) :
          /\ g.grantee \in LambdaVars
          /\ g.table \in {t.id : t \in Range(dynamoTable)}
    /\ \A n \in Range(integrations) :
          /\ n.handler \in LambdaVars
          /\ dynamoTable # <<>>
    /\ \A i \in VerbEntries :
          /\ methods[i].resource \in {r.var : r \in Range(resources)}
          /\ methods[i].integration \in Range(integrations)
          /\ Handler(methods[i]) \in LambdaVars
    /\ ConstructorDone =>
          /\ Len(lambdas) = 5
          /\ \A l \in Range(lambdas) :
                Cardinality({i \in VerbEntries :
                                Handler(methods[i]) = l.var}) = 1

C10_Witness ==
    /\ ConstructorDone
    /\ Len(integrations) = 5
    /\ \A l \in Range(lambdas) :
          \E i \in VerbEntries : Handler(methods[i]) = l.var

====
